---- MODULE Spec2Model ----
(***************************************************************************)
(* A model of the FastAPI data service of src/app/main.py (the metrics     *)
(* middleware, the CRUD endpoints, the exporter and the health probe) and  *)
(* of the load driver of src/tests/loadtest.py.                            *)
(*                                                                         *)
(* Spec     : the service.  Requests arrive, pass the metrics middleware,  *)
(*            run their endpoint against the store and leave.              *)
(* SpecFault: the service when a call on a metric instrument may raise.    *)
(* SpecLoad : the load driver against an arbitrary server.                 *)
(***************************************************************************)
EXTENDS Integers, Sequences, FiniteSets, TLC

\* ------------------------------------------------------------------ bounds
\* Number of requests the service receives in one run.
MaxRequests == 2
\* Largest record id a PUT or DELETE request names.
MaxId == 2
\* Number of rows the table holds when the service starts on the table of an
\* earlier run.
MaxInitRows == 1

\* loadtest.py, scaled down: the number of workers, the operations per worker
\* and the scrape interval.
CONCURRENCY == 2
REQUESTS_PER_CLIENT == 3
METRICS_EVERY == 2
\* Largest record id the server under load holds.
MaxListId == 1

VARIABLES
    store,           \* ids of the rows of the user-data table
    nextId,          \* the id the store assigns to the next created row
    dbUp,            \* whether the store can be reached
    REQUEST_COUNT,   \* Counter: label triple -> value (children made on first use)
    REQUEST_LATENCY, \* Histogram: label triple -> number of observations
    IN_PROGRESS,     \* Gauge
    requests,        \* request slot -> the request and its position in the middleware
    workers,         \* load driver: worker -> its position, loop index and locals
    mainpc           \* load driver: position of main()

vars == <<store, nextId, dbUp, REQUEST_COUNT, REQUEST_LATENCY, IN_PROGRESS, requests,
          workers, mainpc>>

serviceVars == <<store, nextId, dbUp, REQUEST_COUNT, REQUEST_LATENCY, IN_PROGRESS, requests>>
loadVars == <<workers, mainpc>>

metricVars == <<REQUEST_COUNT, REQUEST_LATENCY, IN_PROGRESS>>
storeVars == <<store, nextId, dbUp>>

\* ------------------------------------------------------------------ requests
Slots == 1..MaxRequests
ItemIds == 1..MaxId

\* The path of PUT/DELETE /data/{item_id} as the client sends it.
DataPath(i) == "/data/" \o ToString(i)

DataPaths == {DataPath(i) : i \in ItemIds}

\* The route template the router matches a path against.
RouteOf(path) ==
    IF path \in DataPaths THEN "/data/{item_id}" ELSE path

RouteTemplates == {"/data", "/data/{item_id}", "/metrics", "/health"}

\* The path parameter the router parses out of /data/{item_id}.
ItemIdOf(path) == CHOOSE i \in ItemIds : DataPath(i) = path

\* The (method, path) pairs of the routes the application declares.
RequestLines ==
    {<<"POST", "/data">>, <<"GET", "/data">>, <<"GET", "/metrics">>, <<"GET", "/health">>}
    \cup {<<m, p>> : m \in {"PUT", "DELETE"}, p \in DataPaths}

NoBody == [none |-> TRUE]

NoRequest ==
    [method |-> "", path |-> "", pc |-> "new", status |-> 0, body |-> NoBody]

\* Positions of a request: new (not yet received), handler (inside call_next),
\* count_read, latency_read (inside call_next, the exporter endpoint between
\* its reads of the collectors), responded, counted, observed (between the
\* statements after call_next), done (response returned by the middleware),
\* failed (an exception left it).
InHandler == {"handler", "count_read", "latency_read"}

InMiddleware == InHandler \cup {"responded", "counted", "observed"}

\* ------------------------------------------------------------------ load driver state
Workers == 0..(CONCURRENCY - 1)

NoCall == [method |-> "", path |-> ""]
NoItems == <<>>

\* A worker before main() has created its task.
NoWorker ==
    [pc |-> "unborn", i |-> 0, op |-> "", call |-> NoCall, items |-> NoItems,
     scrapes |-> 0, caught |-> FALSE, pending |-> 0]

\* The load driver before main() runs.
InitLoad ==
    /\ workers = [w \in Workers |-> NoWorker]
    /\ mainpc = "start"

\* The service after start-up: the table exists, empty or with the rows of an
\* earlier run; no request has been received.
InitService(rows) ==
    /\ store = 1..rows
    /\ nextId = rows + 1
    /\ dbUp = TRUE
    /\ REQUEST_COUNT = <<>>
    /\ REQUEST_LATENCY = <<>>
    /\ IN_PROGRESS = 0
    /\ requests = [r \in Slots |-> NoRequest]

Init == InitLoad /\ \E rows \in {0, MaxInitRows} : InitService(rows)

\* ------------------------------------------------------------------ the store
\* What crud.update_user_data / crud.delete_user_data return for an absent id.
None == 0

\* The ids of a set as the list the store returns them in (insertion order).
RECURSIVE Rows(_)
Rows(S) ==
    IF S = {} THEN <<>>
    ELSE LET m == CHOOSE x \in S : \A y \in S : x <= y
         IN <<m>> \o Rows(S \ {m})

\* crud.create_user_data: a new row under the next id.
create_user_data(st, nid) ==
    [store |-> st \cup {nid}, nextId |-> nid + 1, row |-> nid]

\* crud.get_user_data: up to limit rows after the first skip ones.
get_user_data(st, skip, limit) ==
    LET all == Rows(st)
        last == IF skip + limit < Len(all) THEN skip + limit ELSE Len(all)
    IN SubSeq(all, skip + 1, last)

\* crud.update_user_data: the updated row, or None when the id is absent.
update_user_data(st, item_id) ==
    IF item_id \in st THEN item_id ELSE None

\* crud.delete_user_data: the deleted row, or None when the id is absent.
delete_user_data(st, item_id) ==
    [store |-> st \ {item_id}, row |-> IF item_id \in st THEN item_id ELSE None]

\* ------------------------------------------------------------------ endpoints
\* An endpoint's outcome: a response, or an exception that leaves call_next.
Response(status, body, st, nid) ==
    [raised |-> FALSE, status |-> status, body |-> body, store |-> st, nextId |-> nid]

Raised(st, nid) ==
    [raised |-> TRUE, status |-> 0, body |-> NoBody, store |-> st, nextId |-> nid]

NotFound(st, nid) == Response(404, [detail |-> "Item not found"], st, nid)

\* POST /data (the body is a well-formed UserDataCreate)
create_data(st, nid, up) ==
    IF ~up THEN Raised(st, nid)
    ELSE LET c == create_user_data(st, nid)
         IN Response(201, [id |-> c.row], c.store, c.nextId)

\* GET /data (skip = 0, limit = 100)
read_data(st, nid, up) ==
    IF ~up THEN Raised(st, nid)
    ELSE Response(200, [items |-> get_user_data(st, 0, 100)], st, nid)

\* update_data without its "if not updated" check: the result is returned
\* as it is.
update_data_unchecked(item_id, st, nid, up) ==
    IF ~up THEN Raised(st, nid)
    ELSE Response(200, [id |-> update_user_data(st, item_id)], st, nid)

\* PUT /data/{item_id} (the body is a well-formed UserDataCreate)
update_data(item_id, st, nid, up) ==
    IF ~up THEN Raised(st, nid)
    ELSE LET updated == update_user_data(st, item_id)
         IN IF updated = None THEN NotFound(st, nid)
            ELSE Response(200, [id |-> updated], st, nid)

\* delete_data without its "if not deleted" check.
delete_data_unchecked(item_id, st, nid, up) ==
    IF ~up THEN Raised(st, nid)
    ELSE LET d == delete_user_data(st, item_id)
         IN Response(200, [id |-> d.row], d.store, nid)

\* DELETE /data/{item_id}
delete_data(item_id, st, nid, up) ==
    IF ~up THEN Raised(st, nid)
    ELSE LET d == delete_user_data(st, item_id)
         IN IF d.row = None THEN NotFound(st, nid)
            ELSE Response(200, [id |-> d.row], d.store, nid)

\* A scrape that renders its own request as already counted.
metrics_counting_itself(count, latency, gauge, st, nid) ==
    LET own == <<"GET", "/metrics", 200>>
        counted == IF own \in DOMAIN count THEN [count EXCEPT ![own] = @ + 1]
                   ELSE count @@ (own :> 1)
    IN Response(200, [count |-> counted, latency |-> latency, gauge |-> gauge], st, nid)

\* A scrape that leaves its own request out of the rendered gauge.
metrics_excluding_itself(count, latency, gauge, st, nid) ==
    Response(200, [count |-> count, latency |-> latency, gauge |-> gauge - 1], st, nid)

\* GET /metrics: the response carries what generate_latest() has collected
\* from REQUEST_COUNT, REQUEST_LATENCY and IN_PROGRESS.
metrics(count, latency, gauge, st, nid) ==
    Response(200, [count |-> count, latency |-> latency, gauge |-> gauge], st, nid)

\* health_check without its try/except: the probe's error leaves the endpoint.
health_check_uncaught(st, nid, up) ==
    IF up THEN Response(200, [status |-> "ok", database |-> "reachable"], st, nid)
    ELSE Raised(st, nid)

\* GET /health: db.execute(text("SELECT 1")) inside try/except Exception.
health_check(st, nid, up) ==
    IF up THEN Response(200, [status |-> "ok", database |-> "reachable"], st, nid)
    ELSE Response(500, [status |-> "error", database |-> "unreachable",
                        detail |-> "OperationalError"], st, nid)

\* ------------------------------------------------------------------ middleware
\* Counter.labels(...).inc() / Histogram.labels(...).observe(): the child of a
\* label triple is created on first use.
IncAt(f, l) ==
    IF l \in DOMAIN f THEN [f EXCEPT ![l] = @ + 1] ELSE f @@ (l :> 1)

ValueAt(f, l) == IF l \in DOMAIN f THEN f[l] ELSE 0

\* Labels that ignore the response's status code.
LabelsWithoutStatus(req) == <<req.method, req.path, 200>>

\* The label triple of lines 57-62: method, request.url.path, status_code.
Labels(req) == <<req.method, req.path, req.status>>

\* A middleware that calls the endpoint before it has touched the gauge.
MwEnterBeforeInc(r, line) ==
    /\ requests[r].pc = "new"
    /\ \A q \in Slots : q < r => requests[q].pc # "new"
    /\ requests' = [requests EXCEPT ![r] =
           [method |-> line[1], path |-> line[2],
            pc |-> "handler", status |-> 0, body |-> NoBody]]
    /\ UNCHANGED <<storeVars, metricVars, loadVars>>

\* Lines 52-54: IN_PROGRESS.inc(), then await call_next(request).
MwEnter(r, line) ==
    /\ requests[r].pc = "new"
    /\ \A q \in Slots : q < r => requests[q].pc # "new"
    /\ IN_PROGRESS' = IN_PROGRESS + 1
    /\ requests' = [requests EXCEPT ![r] =
           [method |-> line[1], path |-> line[2],
            pc |-> "handler", status |-> 0, body |-> NoBody]]
    /\ UNCHANGED <<storeVars, REQUEST_COUNT, REQUEST_LATENCY, loadVars>>

\* call_next returns the endpoint's response, or the endpoint's exception
\* propagates through line 54 and out of metrics_middleware.
Outcome(r, out) ==
    /\ requests' = [requests EXCEPT
           ![r].pc = IF out.raised THEN "failed" ELSE "responded",
           ![r].status = out.status,
           ![r].body = out.body]
    /\ store' = out.store
    /\ nextId' = out.nextId
    /\ UNCHANGED <<dbUp, metricVars, loadVars>>

AtHandler(r, method, route) ==
    /\ requests[r].pc = "handler"
    /\ requests[r].method = method
    /\ RouteOf(requests[r].path) = route

CallCreate(r) ==
    /\ AtHandler(r, "POST", "/data")
    /\ Outcome(r, create_data(store, nextId, dbUp))

CallRead(r) ==
    /\ AtHandler(r, "GET", "/data")
    /\ Outcome(r, read_data(store, nextId, dbUp))

CallUpdate(r) ==
    /\ AtHandler(r, "PUT", "/data/{item_id}")
    /\ Outcome(r, update_data(ItemIdOf(requests[r].path), store, nextId, dbUp))

CallDelete(r) ==
    /\ AtHandler(r, "DELETE", "/data/{item_id}")
    /\ Outcome(r, delete_data(ItemIdOf(requests[r].path), store, nextId, dbUp))

\* metrics() is a sync endpoint: generate_latest() (line 94) runs in a worker
\* thread and collects the registry's collectors one after another, in the
\* order of their registration (lines 26-37): the counter, the histogram, the
\* gauge.  The event loop runs the middleware statements of other requests
\* between these reads, so the three parts of a payload are read in up to
\* three different states.
CollectCount(r) ==
    /\ AtHandler(r, "GET", "/metrics")
    /\ requests' = [requests EXCEPT ![r].pc = "count_read",
                                    ![r].body = [count |-> REQUEST_COUNT]]
    /\ UNCHANGED <<storeVars, metricVars, loadVars>>

CollectLatency(r) ==
    /\ requests[r].pc = "count_read"
    /\ requests' = [requests EXCEPT ![r].pc = "latency_read",
                                    ![r].body = [count |-> @.count,
                                                 latency |-> REQUEST_LATENCY]]
    /\ UNCHANGED <<storeVars, metricVars, loadVars>>

\* The gauge is read last; metrics() returns the payload (line 95).
CallMetrics(r) ==
    /\ requests[r].pc = "latency_read"
    /\ Outcome(r, metrics(requests[r].body.count, requests[r].body.latency,
                          IN_PROGRESS, store, nextId))

CallHealth(r) ==
    /\ AtHandler(r, "GET", "/health")
    /\ Outcome(r, health_check(store, nextId, dbUp))

\* Lines 57-59: REQUEST_COUNT.labels(...).inc()
MwCount(r) ==
    /\ requests[r].pc = "responded"
    /\ REQUEST_COUNT' = IncAt(REQUEST_COUNT, Labels(requests[r]))
    /\ requests' = [requests EXCEPT ![r].pc = "counted"]
    /\ UNCHANGED <<storeVars, REQUEST_LATENCY, IN_PROGRESS, loadVars>>

\* A middleware that goes on without recording the observation.
MwObserveNothing(r) ==
    /\ requests[r].pc = "counted"
    /\ requests' = [requests EXCEPT ![r].pc = "observed"]
    /\ UNCHANGED <<storeVars, metricVars, loadVars>>

\* Lines 60-62: REQUEST_LATENCY.labels(...).observe(latency)
MwObserve(r) ==
    /\ requests[r].pc = "counted"
    /\ REQUEST_LATENCY' = IncAt(REQUEST_LATENCY, Labels(requests[r]))
    /\ requests' = [requests EXCEPT ![r].pc = "observed"]
    /\ UNCHANGED <<storeVars, REQUEST_COUNT, IN_PROGRESS, loadVars>>

\* Lines 64-65: IN_PROGRESS.dec(); return response
MwReturn(r) ==
    /\ requests[r].pc = "observed"
    /\ IN_PROGRESS' = IN_PROGRESS - 1
    /\ requests' = [requests EXCEPT ![r].pc = "done"]
    /\ UNCHANGED <<storeVars, REQUEST_COUNT, REQUEST_LATENCY, loadVars>>

\* The store becomes unreachable, or reachable again.
DbFail ==
    /\ dbUp
    /\ dbUp' = FALSE
    /\ UNCHANGED <<store, nextId, metricVars, requests, loadVars>>

DbRecover ==
    /\ ~dbUp
    /\ dbUp' = TRUE
    /\ UNCHANGED <<store, nextId, metricVars, requests, loadVars>>

Next ==
    \/ \E r \in Slots, line \in RequestLines : MwEnter(r, line)
    \/ \E r \in Slots : CallCreate(r)
    \/ \E r \in Slots : CallRead(r)
    \/ \E r \in Slots : CallUpdate(r)
    \/ \E r \in Slots : CallDelete(r)
    \/ \E r \in Slots : CollectCount(r)
    \/ \E r \in Slots : CollectLatency(r)
    \/ \E r \in Slots : CallMetrics(r)
    \/ \E r \in Slots : CallHealth(r)
    \/ \E r \in Slots : MwCount(r)
    \/ \E r \in Slots : MwObserve(r)
    \/ \E r \in Slots : MwReturn(r)
    \/ DbFail
    \/ DbRecover

Spec == Init /\ [][Next]_vars

\* ------------------------------------------------------------------ instrument faults
\* A call on a metric instrument raises.  metrics_middleware has no handler
\* around lines 52-64, so the exception leaves it and the statements after the
\* raising call do not run.
MwEnterRaises(r, line) ==
    /\ requests[r].pc = "new"
    /\ \A q \in Slots : q < r => requests[q].pc # "new"
    /\ requests' = [requests EXCEPT ![r] =
           [method |-> line[1], path |-> line[2],
            pc |-> "failed", status |-> 0, body |-> NoBody]]
    /\ UNCHANGED <<storeVars, metricVars, loadVars>>

MwCountRaises(r) ==
    /\ requests[r].pc = "responded"
    /\ requests' = [requests EXCEPT ![r].pc = "failed"]
    /\ UNCHANGED <<storeVars, metricVars, loadVars>>

MwObserveRaises(r) ==
    /\ requests[r].pc = "counted"
    /\ requests' = [requests EXCEPT ![r].pc = "failed"]
    /\ UNCHANGED <<storeVars, metricVars, loadVars>>

MwReturnRaises(r) ==
    /\ requests[r].pc = "observed"
    /\ requests' = [requests EXCEPT ![r].pc = "failed"]
    /\ UNCHANGED <<storeVars, metricVars, loadVars>>

NextFault ==
    \/ Next
    \/ \E r \in Slots, line \in RequestLines : MwEnterRaises(r, line)
    \/ \E r \in Slots : MwCountRaises(r)
    \/ \E r \in Slots : MwObserveRaises(r)
    \/ \E r \in Slots : MwReturnRaises(r)

SpecFault == Init /\ [][NextFault]_vars

\* ------------------------------------------------------------------ load driver
\* Positions of a worker: unborn, created (task made by main), post, read,
\* list (GET /data of an update or delete), put, delete, scrape (each awaiting
\* the reply of the call in flight), sleep, done, crashed (an exception left
\* worker()).  scrapes counts the GET /metrics calls issued in the current
\* iteration, caught whether the current iteration reached the except clause,
\* pending the calls the worker has issued whose await has not returned.
ListIds == 1..MaxListId

\* The keys of OP_WEIGHTS; every weight is positive, so each can be drawn.
Ops == {"create", "read", "update", "delete"}

\* Line 80: the name main() gives worker i.
ClientName(w) == "client" \o ToString(w)

\* A payload that leaves the loop index out.
CreatePayloadWithoutIndex(w, i) ==
    [name |-> "user_" \o ClientName(w),
     email |-> ClientName(w) \o "@example.com",
     message |-> "load test"]

\* Lines 32-36: the record a create synthesizes.
CreatePayload(w, i) ==
    [name |-> "user_" \o ClientName(w) \o "_" \o ToString(i),
     email |-> ClientName(w) \o "_" \o ToString(i) \o "@example.com",
     message |-> "load test"]

\* Lines 51-55: the record an update sends for a fetched item.
UpdatePayload(item) ==
    [name |-> item.name \o "_upd", email |-> item.email, message |-> "updated"]

\* A row as the server under load lists it.
ServerItem(k) ==
    [id |-> k, name |-> "user_" \o ToString(k),
     email |-> ToString(k) \o "@example.com", message |-> "m"]

RECURSIVE ItemList(_)
ItemList(S) ==
    IF S = {} THEN <<>>
    ELSE LET m == CHOOSE x \in S : \A y \in S : x <= y
         IN <<ServerItem(m)>> \o ItemList(S \ {m})

\* What a call of the HTTP client comes back with: an exception (timeout,
\* connection error), or a response whose body is a JSON object, a JSON array
\* or text that does not parse as JSON.
Failure == [raised |-> TRUE, status |-> 0, kind |-> "none", json |-> NoBody]
Reply(status, json) == [raised |-> FALSE, status |-> status, kind |-> "object", json |-> json]
ArrayReply(status, items) ==
    [raised |-> FALSE, status |-> status, kind |-> "array", json |-> items]
TextReply(status) == [raised |-> FALSE, status |-> status, kind |-> "text", json |-> NoBody]

\* A row that carries nothing but its id.
BareItem(k) == [id |-> k]

CreateReplies ==
    {Failure, TextReply(500), Reply(201, ServerItem(1)), Reply(201, [detail |-> "x"]),
     ArrayReply(201, <<ServerItem(1)>>)}
ReadReplies == {Failure, TextReply(500), ArrayReply(200, ItemList(ListIds))}
ListReplies ==
    {Failure, TextReply(500), Reply(500, [detail |-> "x"]), ArrayReply(200, <<BareItem(1)>>)}
    \cup {ArrayReply(200, ItemList(S)) : S \in SUBSET ListIds}
ItemReplies == {Failure, Reply(200, ServerItem(1)), Reply(404, [detail |-> "Item not found"])}
ScrapeReplies == {Failure, TextReply(200)}

\* resp.json()[key]: the body parses, is an object and has the key.
HasKey(rep, key) == rep.kind = "object" /\ key \in DOMAIN rep.json

\* Line 73: the pause that ends an iteration.
Sleep(ws) == [ws EXCEPT !.pc = "sleep", !.op = "", !.call = NoCall, !.items = NoItems]

\* A worker without the try/except of lines 30-70: the exception leaves it.
Uncaught(ws) == [ws EXCEPT !.pc = "crashed", !.call = NoCall, !.items = NoItems]

\* Lines 69-70: the except clause prints the error; the iteration ends.
Caught(ws) == Sleep([ws EXCEPT !.caught = TRUE])

\* Lines 65-67: after the CRUD branch, scrape on every METRICS_EVERY-th index.
AfterCrud(ws) ==
    IF ws.i % METRICS_EVERY = 0
    THEN [ws EXCEPT !.pc = "scrape", !.call = [method |-> "GET", path |-> "/metrics"],
                    !.items = NoItems, !.scrapes = @ + 1, !.pending = @ + 1]
    ELSE Sleep(ws)

\* Lines 23-63 up to the first await: iteration i draws op and issues its
\* first call; after REQUESTS_PER_CLIENT iterations the worker prints done.
StartIteration(w, ws, i, op) ==
    IF i >= REQUESTS_PER_CLIENT
    THEN [ws EXCEPT !.pc = "done", !.i = i, !.call = NoCall]
    ELSE [pc |-> CASE op = "create" -> "post"
                   [] op = "read" -> "read"
                   [] OTHER -> "list",
          i |-> i, op |-> op,
          call |-> IF op = "create"
                   THEN [method |-> "POST", path |-> "/data", json |-> CreatePayload(w, i)]
                   ELSE [method |-> "GET", path |-> "/data"],
          items |-> NoItems, scrapes |-> 0, caught |-> FALSE,
          pending |-> ws.pending + 1]

\* Lines 37-40: the reply of POST /data; for a 201, resp.json()["id"] raises
\* unless the body is a JSON object with an id.
OnCreateReply(ws, rep) ==
    IF rep.raised THEN Caught(ws)
    ELSE IF rep.status = 201 /\ ~HasKey(rep, "id") THEN Caught(ws)
    ELSE AfterCrud(ws)

\* Line 43: the reply of the GET /data of a read.
OnReadReply(ws, rep) ==
    IF rep.raised THEN Caught(ws) ELSE AfterCrud(ws)

\* A worker that addresses the row after the one it picked.
OnListReplyOffByOne(ws, rep, pick) ==
    IF rep.raised \/ rep.kind = "text" THEN Caught(ws)
    ELSE IF rep.json = <<>> THEN AfterCrud([ws EXCEPT !.items = rep.json])
    ELSE IF rep.kind = "object" THEN Caught(ws)
    ELSE LET item == rep.json[pick]
         IN IF ws.op = "update"
            THEN IF {"name", "email", "id"} \subseteq DOMAIN item
                 THEN [ws EXCEPT !.pc = "put", !.items = rep.json, !.pending = @ + 1,
                                 !.call = [method |-> "PUT", path |-> DataPath(item.id + 1),
                                           json |-> UpdatePayload(item)]]
                 ELSE Caught(ws)
            ELSE IF "id" \in DOMAIN item
                 THEN [ws EXCEPT !.pc = "delete", !.items = rep.json, !.pending = @ + 1,
                                 !.call = [method |-> "DELETE", path |-> DataPath(item.id + 1)]]
                 ELSE Caught(ws)

\* Lines 47-56 and 59-63: the reply of the GET /data of an update or delete;
\* pick is the index random.choice draws.  r.json() raises on a body that does
\* not parse; an empty body value skips the branch of "if items"; random.choice
\* raises on an object; item["name"], item["email"] and item["id"] raise on a
\* row that lacks them.
OnListReply(ws, rep, pick) ==
    IF rep.raised \/ rep.kind = "text" THEN Caught(ws)
    ELSE IF rep.json = <<>> THEN AfterCrud([ws EXCEPT !.items = rep.json])
    ELSE IF rep.kind = "object" THEN Caught(ws)
    ELSE LET item == rep.json[pick]
         IN IF ws.op = "update"
            THEN IF {"name", "email", "id"} \subseteq DOMAIN item
                 THEN [ws EXCEPT !.pc = "put", !.items = rep.json, !.pending = @ + 1,
                                 !.call = [method |-> "PUT", path |-> DataPath(item.id),
                                           json |-> UpdatePayload(item)]]
                 ELSE Caught(ws)
            ELSE IF "id" \in DOMAIN item
                 THEN [ws EXCEPT !.pc = "delete", !.items = rep.json, !.pending = @ + 1,
                                 !.call = [method |-> "DELETE", path |-> DataPath(item.id)]]
                 ELSE Caught(ws)

\* Lines 56 and 63: the reply of PUT or DELETE /data/{id}.
OnItemReply(ws, rep) ==
    IF rep.raised THEN Caught(ws) ELSE AfterCrud(ws)

\* Line 67: the reply of GET /metrics.
OnScrapeReply(ws, rep) ==
    IF rep.raised THEN Caught(ws) ELSE Sleep(ws)

\* A call issued without await: the worker goes on while it is in flight.
Unawaited(ws) == ws

\* "await client....": the worker resumes only when the call in flight has
\* returned or raised.
Awaited(ws) == [ws EXCEPT !.pending = @ - 1]

SetWorker(w, ws) ==
    /\ workers' = [workers EXCEPT ![w] = ws]
    /\ UNCHANGED <<mainpc, serviceVars>>

\* Line 80: main() creates one task per worker, then awaits them all.
MainStart ==
    /\ mainpc = "start"
    /\ mainpc' = "gather"
    /\ workers' = [w \in Workers |-> [NoWorker EXCEPT !.pc = "created"]]
    /\ UNCHANGED serviceVars

\* The task of worker w runs for the first time.
WorkerStart(w, op) ==
    /\ workers[w].pc = "created"
    /\ SetWorker(w, StartIteration(w, workers[w], 0, op))

CreateReply(w, rep) ==
    /\ workers[w].pc = "post"
    /\ SetWorker(w, OnCreateReply(Awaited(workers[w]), rep))

ReadReply(w, rep) ==
    /\ workers[w].pc = "read"
    /\ SetWorker(w, OnReadReply(Awaited(workers[w]), rep))

ListReply(w, rep, pick) ==
    /\ workers[w].pc = "list"
    /\ pick = 1 \/ (rep.kind = "array" /\ pick <= Len(rep.json))
    /\ SetWorker(w, OnListReply(Awaited(workers[w]), rep, pick))

ItemReply(w, rep) ==
    /\ workers[w].pc \in {"put", "delete"}
    /\ SetWorker(w, OnItemReply(Awaited(workers[w]), rep))

ScrapeReply(w, rep) ==
    /\ workers[w].pc = "scrape"
    /\ SetWorker(w, OnScrapeReply(Awaited(workers[w]), rep))

\* asyncio.sleep returns: the loop goes on to the next index.
Wake(w, op) ==
    /\ workers[w].pc = "sleep"
    /\ SetWorker(w, StartIteration(w, workers[w], workers[w].i + 1, op))

\* A main() that reports without awaiting the tasks it created.
MainReportWithoutGather ==
    /\ mainpc = "gather"
    /\ mainpc' = "reported"
    /\ UNCHANGED <<workers, serviceVars>>

\* Lines 81-83: gather returns once every task has finished; main reports.
MainReport ==
    /\ mainpc = "gather"
    /\ \A w \in Workers : workers[w].pc = "done"
    /\ mainpc' = "reported"
    /\ UNCHANGED <<workers, serviceVars>>

NextLoad ==
    \/ MainStart
    \/ \E w \in Workers, op \in Ops : WorkerStart(w, op)
    \/ \E w \in Workers, rep \in CreateReplies : CreateReply(w, rep)
    \/ \E w \in Workers, rep \in ReadReplies : ReadReply(w, rep)
    \/ \E w \in Workers, rep \in ListReplies, pick \in 1..MaxListId : ListReply(w, rep, pick)
    \/ \E w \in Workers, rep \in ItemReplies : ItemReply(w, rep)
    \/ \E w \in Workers, rep \in ScrapeReplies : ScrapeReply(w, rep)
    \/ \E w \in Workers, op \in Ops : Wake(w, op)
    \/ MainReport

\* The driver runs against a server of its own; the service part stays put.
InitDriver == InitLoad /\ InitService(0)

SpecLoad == InitDriver /\ [][NextLoad]_vars

\* ------------------------------------------------------------------ vocabulary
\* A request has left the middleware: its response was returned (done) or an
\* exception left metrics_middleware (failed; the client is answered 500).
Completed(r) == requests[r].pc \in {"done", "failed"}

ClientStatus(r) == IF requests[r].pc = "failed" THEN 500 ELSE requests[r].status

\* The step in which the endpoint of request r ends and call_next returns or
\* raises.
HandlerStep(r) == requests[r].pc \in InHandler /\ requests'[r].pc \notin InHandler

\* A step of the endpoint of request r: any step r takes inside call_next.
EndpointStep(r) == requests[r].pc \in InHandler /\ requests'[r] # requests[r]

IsRequest(r, method, route) ==
    /\ requests[r].pc # "new"
    /\ requests[r].method = method
    /\ RouteOf(requests[r].path) = route

\* The ids some DELETE has removed (answered 200) so far.
Deleted ==
    {i \in ItemIds : \E r \in Slots :
        /\ IsRequest(r, "DELETE", "/data/{item_id}")
        /\ requests[r].path = DataPath(i)
        /\ requests[r].status = 200}

SeqRange(s) == {s[k] : k \in 1..Len(s)}

\* ------------------------------------------------------------------ claims
\* C1: every request that entered metrics_middleware takes the in-progress
\* gauge down by exactly one when it leaves, whether call_next returned a
\* response or the endpoint's exception propagated: in every step the gauge
\* changes by (requests entering) - (requests leaving).
C1_GaugeDecrementedOncePerRequest ==
    [][LET entering == {r \in Slots : requests[r].pc = "new" /\ requests'[r].pc # "new"}
           leaving == {r \in Slots : requests[r].pc \in InMiddleware
                                     /\ requests'[r].pc \in {"done", "failed"}}
       IN IN_PROGRESS' = IN_PROGRESS + Cardinality(entering) - Cardinality(leaving)]_vars

\* C2: once no request is in flight, the counter of every label triple equals
\* the number of completed requests with that method, path and status, and the
\* in-progress gauge is 0.
C2_CountersExactWhenQuiescent ==
    (\A r \in Slots : requests[r].pc \in {"new", "done", "failed"}) =>
        /\ IN_PROGRESS = 0
        /\ LET answered(r) == <<requests[r].method, requests[r].path, ClientStatus(r)>>
               triples == DOMAIN REQUEST_COUNT
                          \cup {answered(r) : r \in {q \in Slots : Completed(q)}}
           IN \A l \in triples :
                  ValueAt(REQUEST_COUNT, l)
                      = Cardinality({r \in Slots : Completed(r) /\ answered(r) = l})

\* C3: a request whose endpoint produced a response is never failed by the
\* instrumentation around it: an error of a metric call is swallowed.
C3_MetricsFailureNeverFailsRequest ==
    \A r \in Slots : requests[r].status # 0 => requests[r].pc # "failed"

\* C4: counter and histogram are labelled by route template, so requests with
\* the same method, route template and status share one label triple whatever
\* ids their paths carry.
C4_LabelsBoundedByRouteTemplates ==
    /\ \A l \in DOMAIN REQUEST_COUNT \cup DOMAIN REQUEST_LATENCY : l[2] \in RouteTemplates
    /\ \A r1, r2 \in Slots :
           (/\ requests[r1].pc \in {"counted", "observed", "done"}
            /\ requests[r2].pc \in {"counted", "observed", "done"}
            /\ requests[r1].method = requests[r2].method
            /\ RouteOf(requests[r1].path) = RouteOf(requests[r2].path)
            /\ requests[r1].status = requests[r2].status)
           => Labels(requests[r1]) = Labels(requests[r2])

\* C5 as stated: PUT or DELETE of an id that is not in the store is always
\* answered 404, never 500.
C5_MissingIdAlwaysNotFound ==
    [][\A r \in Slots :
          (/\ HandlerStep(r)
           /\ requests[r].method \in {"PUT", "DELETE"}
           /\ ItemIdOf(requests[r].path) \notin store)
          => requests'[r].pc = "responded" /\ requests'[r].status = 404]_vars

\* C5 as amended: PUT or DELETE of an id that is not in the store is answered
\* 404 whenever the store can be reached, whatever happened before (another
\* request may just have deleted the row); it fails with 500 only when the
\* store itself is unreachable, and it is never answered 200.
C5_MissingIdNotFoundWhenStoreUp ==
    [][\A r \in Slots :
          (/\ HandlerStep(r)
           /\ requests[r].method \in {"PUT", "DELETE"}
           /\ ItemIdOf(requests[r].path) \notin store)
          => IF dbUp
             THEN requests'[r].pc = "responded" /\ requests'[r].status = 404
             ELSE requests'[r].pc = "failed"]_vars

\* A PUT and a DELETE of absent ids have both been answered 404, one of them
\* for an id that another request had deleted or that never existed.
C5_Witness ==
    \E r1, r2 \in Slots :
        /\ requests[r1].method = "PUT" /\ requests[r1].pc = "done"
        /\ requests[r1].status = 404
        /\ requests[r2].method = "DELETE" /\ requests[r2].pc = "done"
        /\ requests[r2].status = 404

\* C6 as stated: after a DELETE removed an id, no list returned afterwards
\* holds that id and a further DELETE of it is answered 404.
C6_DeletedStaysDeleted ==
    [][\A r \in Slots : HandlerStep(r) =>
          /\ (IsRequest(r, "GET", "/data") /\ requests'[r].pc = "responded")
                 => SeqRange(requests'[r].body.items) \cap Deleted = {}
          /\ (IsRequest(r, "DELETE", "/data/{item_id}")
              /\ ItemIdOf(requests[r].path) \in Deleted)
                 => requests'[r].pc = "responded" /\ requests'[r].status = 404]_vars

\* C6 as amended: after a DELETE removed an id, no list returned afterwards
\* holds that id; a further DELETE of it is answered 404 whenever the store
\* can be reached and fails with 500 when it cannot, and never succeeds again.
C6_DeletedStaysDeletedWhenStoreUp ==
    [][\A r \in Slots : HandlerStep(r) =>
          /\ (IsRequest(r, "GET", "/data") /\ requests'[r].pc = "responded")
                 => SeqRange(requests'[r].body.items) \cap Deleted = {}
          /\ (IsRequest(r, "DELETE", "/data/{item_id}")
              /\ ItemIdOf(requests[r].path) \in Deleted)
                 => IF dbUp
                    THEN requests'[r].pc = "responded" /\ requests'[r].status = 404
                    ELSE requests'[r].pc = "failed"]_vars

\* An id was deleted (200) and a second DELETE of the same id was answered 404.
C6_Witness ==
    \E r1, r2 \in Slots :
        /\ r1 # r2
        /\ requests[r1].method = "DELETE" /\ requests[r2].method = "DELETE"
        /\ requests[r1].path = requests[r2].path
        /\ requests[r1].status = 200 /\ requests[r1].pc = "done"
        /\ requests[r2].status = 404 /\ requests[r2].pc = "done"

\* C7: the health endpoint never lets an exception out: with the store
\* reachable it answers 200 {status: ok, database: reachable}, with the store
\* unreachable 500 {status: error, database: unreachable, detail}.
C7_HealthNeverRaises ==
    [][\A r \in Slots : (HandlerStep(r) /\ IsRequest(r, "GET", "/health")) =>
          /\ requests'[r].pc = "responded"
          /\ IF dbUp
             THEN /\ requests'[r].status = 200
                  /\ requests'[r].body = [status |-> "ok", database |-> "reachable"]
             ELSE /\ requests'[r].status = 500
                  /\ DOMAIN requests'[r].body = {"status", "database", "detail"}
                  /\ requests'[r].body.status = "error"
                  /\ requests'[r].body.database = "unreachable"]_vars

\* One health check has answered 200 and another 500.
C7_Witness ==
    \E r1, r2 \in Slots :
        /\ IsRequest(r1, "GET", "/health") /\ IsRequest(r2, "GET", "/health")
        /\ requests[r1].pc = "done" /\ requests[r1].status = 200
        /\ requests[r2].pc = "done" /\ requests[r2].status = 500

\* C8: a failing health check is instrumented like any other request: it
\* leaves the middleware normally, the counter of (GET, /health, 500) holds one
\* increment and the histogram one observation per such request that passed
\* those statements, and the gauge holds exactly the requests that entered and
\* have not returned, so a returned health check left it where it found it.
C8_FailingHealthIsInstrumented ==
    LET failing == {r \in Slots : /\ IsRequest(r, "GET", "/health")
                                  /\ requests[r].status = 500}
        triple == <<"GET", "/health", 500>>
    IN /\ \A r \in failing : requests[r].pc # "failed"
       /\ ValueAt(REQUEST_COUNT, triple)
              = Cardinality({r \in failing : requests[r].pc \in {"counted", "observed", "done"}})
       /\ ValueAt(REQUEST_LATENCY, triple)
              = Cardinality({r \in failing : requests[r].pc \in {"observed", "done"}})
       /\ IN_PROGRESS = Cardinality({r \in Slots : requests[r].pc \notin {"new", "done"}})

\* A failing health check has returned and nothing else is in flight.
C8_Witness ==
    /\ \E r \in Slots :
           /\ IsRequest(r, "GET", "/health")
           /\ requests[r].status = 500
           /\ requests[r].pc = "done"
    /\ \A r \in Slots : requests[r].pc \in {"new", "done"}

\* C9: the load driver always runs all CONCURRENCY * REQUESTS_PER_CLIENT
\* iterations: no exception leaves a worker, a worker that has finished has
\* run REQUESTS_PER_CLIENT iterations, and the driver never stops before every
\* worker has finished.
C9_AllIterationsComplete ==
    /\ \A w \in Workers : workers[w].pc # "crashed"
    /\ \A w \in Workers : workers[w].pc = "done" => workers[w].i = REQUESTS_PER_CLIENT
    /\ (\A w \in Workers : workers[w].pc = "done") \/ ENABLED NextLoad

\* Every worker has finished all its iterations, and the last iteration of one
\* of them went through the except clause.
C9_Witness ==
    /\ \A w \in Workers : workers[w].pc = "done" /\ workers[w].i = REQUESTS_PER_CLIENT
    /\ \E w \in Workers : workers[w].caught

\* C10: an iteration whose index is a multiple of METRICS_EVERY has issued
\* exactly one scrape by the time it ends, whatever its operation and whatever
\* the outcome of its CRUD call; the other iterations issue none.
C10_ScrapeEveryKthIteration ==
    \A w \in Workers :
        workers[w].pc = "sleep" =>
            workers[w].scrapes = IF workers[w].i % METRICS_EVERY = 0 THEN 1 ELSE 0

\* C11: a worker never has two HTTP calls in flight: it has at most one call
\* whose await has not returned, exactly while it waits for a reply, and it
\* issues the next call only after that; workers do not constrain each other.
C11_OneCallInFlightPerWorker ==
    \A w \in Workers :
        /\ workers[w].pending <= 1
        /\ workers[w].pending = 1
               <=> workers[w].pc \in {"post", "read", "list", "put", "delete", "scrape"}
        /\ workers[w].pending = 1 => workers[w].call # NoCall
        /\ workers[w].pending = 0 => workers[w].call = NoCall

\* Two workers have a call in flight at the same time, one of them its second
\* call of the iteration.
C11_Witness ==
    \E w1, w2 \in Workers :
        /\ w1 # w2
        /\ workers[w1].pending = 1 /\ workers[w1].pc \in {"put", "delete", "scrape"}
        /\ workers[w2].pending = 1

\* C12: serving a scrape only reads the collectors: every step of the exporter
\* endpoint leaves counter, histogram and gauge as they are, each part of the
\* payload is the value its collector holds when the endpoint reads it, a part
\* once read is not altered by the rest of the rendering, and the endpoint
\* answers 200 with the three parts it read.
C12_ScrapeOnlyReads ==
    [][\A r \in Slots : (EndpointStep(r) /\ IsRequest(r, "GET", "/metrics")) =>
          /\ UNCHANGED metricVars
          /\ requests[r].pc = "handler" =>
                 /\ requests'[r].pc = "count_read"
                 /\ requests'[r].body = [count |-> REQUEST_COUNT]
          /\ requests[r].pc = "count_read" =>
                 /\ requests'[r].pc = "latency_read"
                 /\ requests'[r].body = [count |-> requests[r].body.count,
                                         latency |-> REQUEST_LATENCY]
          /\ requests[r].pc = "latency_read" =>
                 /\ requests'[r].pc = "responded"
                 /\ requests'[r].status = 200
                 /\ requests'[r].body = [count |-> requests[r].body.count,
                                         latency |-> requests[r].body.latency,
                                         gauge |-> IN_PROGRESS]]_vars

\* A scrape has been served while another request went through the middleware
\* between its reads: the counter part was read before that request's
\* increment, the histogram part after its observation.
C12_Witness ==
    \E r \in Slots :
        /\ IsRequest(r, "GET", "/metrics")
        /\ requests[r].pc \in {"responded", "counted", "observed", "done"}
        /\ DOMAIN requests[r].body.count = {}
        /\ DOMAIN requests[r].body.latency # {}
        /\ requests[r].body.gauge >= 1

\* C13: for every request the gauge is incremented in the step that receives
\* it, before the step that runs its endpoint; the counter and the histogram
\* change only for a request whose endpoint has produced its response, counter
\* first, and the gauge is decremented only after both.
C13_MiddlewareOrdering ==
    [][/\ \A r \in Slots :
             (requests[r].pc = "new" /\ requests'[r].pc # "new")
                 => requests'[r].pc = "handler" /\ IN_PROGRESS' = IN_PROGRESS + 1
       /\ \A r \in Slots :
             EndpointStep(r) => IN_PROGRESS >= 1 /\ UNCHANGED metricVars
       /\ REQUEST_COUNT' # REQUEST_COUNT =>
             \E r \in Slots :
                 /\ requests[r].pc = "responded" /\ requests'[r].pc = "counted"
                 /\ REQUEST_COUNT' = IncAt(REQUEST_COUNT, Labels(requests[r]))
                 /\ UNCHANGED <<REQUEST_LATENCY, IN_PROGRESS>>
       /\ REQUEST_LATENCY' # REQUEST_LATENCY =>
             \E r \in Slots :
                 /\ requests[r].pc = "counted" /\ requests'[r].pc = "observed"
                 /\ REQUEST_LATENCY' = IncAt(REQUEST_LATENCY, Labels(requests[r]))
                 /\ UNCHANGED <<REQUEST_COUNT, IN_PROGRESS>>
       /\ IN_PROGRESS' < IN_PROGRESS =>
             \E r \in Slots :
                 /\ requests[r].pc = "observed" /\ requests'[r].pc = "done"
                 /\ IN_PROGRESS' = IN_PROGRESS - 1
                 /\ UNCHANGED <<REQUEST_COUNT, REQUEST_LATENCY>>]_vars

\* A request has gone through every statement of the middleware.
C13_Witness ==
    \E r \in Slots :
        /\ requests[r].pc = "done"
        /\ ValueAt(REQUEST_COUNT, Labels(requests[r])) >= 1
        /\ ValueAt(REQUEST_LATENCY, Labels(requests[r])) >= 1

\* C14: a worker issues a PUT or DELETE only as the second call of an update
\* or delete iteration, right after the reply to its GET /data, only when the
\* list of that reply is not empty, and for the id of an item of that list.
C14_MutationTargetsFetchedItem ==
    [][\A w \in Workers :
          (workers'[w].pc \in {"put", "delete"} /\ workers[w].pc \notin {"put", "delete"})
          => /\ workers[w].pc = "list"
             /\ workers[w].op \in {"update", "delete"}
             /\ workers'[w].call.method = IF workers[w].op = "update" THEN "PUT" ELSE "DELETE"
             /\ workers'[w].items # <<>>
             /\ \E k \in 1..Len(workers'[w].items) :
                    workers'[w].call.path = DataPath(workers'[w].items[k].id)]_vars

\* A worker has a PUT in flight for an item of the list it fetched.
C14_Witness ==
    \E w \in Workers :
        /\ workers[w].pc = "put"
        /\ workers[w].items # <<>>
        /\ workers[w].call.method = "PUT"

\* C15: when main() reports the elapsed time every worker has finished all of
\* its iterations: none is still running, waiting or asleep.
C15_ReportAfterAllWorkers ==
    mainpc = "reported" =>
        \A w \in Workers :
            /\ workers[w].pc = "done"
            /\ workers[w].i = REQUESTS_PER_CLIENT
            /\ workers[w].pending = 0

\* main() has reported.
C15_Witness ==
    /\ mainpc = "reported"
    /\ \A w \in Workers : workers[w].pc = "done"

\* C16: the payload of a create is unique to its worker and iteration: the
\* name and the email a POST /data in flight carries differ from those of the
\* create of every other worker and of every other iteration of the run.
C16_CreatePayloadsUnique ==
    \A w \in Workers :
        workers[w].pc = "post" =>
            \A w2 \in Workers, i2 \in 0..(REQUESTS_PER_CLIENT - 1) :
                <<w2, i2>> # <<w, workers[w].i>> =>
                    /\ workers[w].call.json.name # CreatePayload(w2, i2).name
                    /\ workers[w].call.json.email # CreatePayload(w2, i2).email

\* Two workers have a create in flight at once, one of them past its first
\* iteration.
C16_Witness ==
    \E w1, w2 \in Workers :
        /\ w1 # w2
        /\ workers[w1].pc = "post" /\ workers[w1].i > 0
        /\ workers[w2].pc = "post"

\* The requests that have rendered a scrape payload.
Scrapes ==
    {r \in Slots : /\ IsRequest(r, "GET", "/metrics")
                   /\ requests[r].pc \in {"responded", "counted", "observed", "done"}}

\* C17 as stated: in every state a scrape observes, the histogram's
\* observation count equals the counter value for each label triple.
C17_ScrapeSeesCounterEqualHistogram ==
    \A r \in Scrapes :
        \A l \in DOMAIN requests[r].body.count \cup DOMAIN requests[r].body.latency :
            ValueAt(requests[r].body.count, l) = ValueAt(requests[r].body.latency, l)

\* C17 as amended: in every state, for each label triple, the histogram's
\* observation count is the counter value minus the number of requests that
\* have incremented the counter and not yet recorded their observation; the
\* two agree exactly when no request sits between the two statements.  A
\* scrape reads the two collectors one after the other, so its payload is no
\* snapshot: each part is at most what its collector holds now, and the
\* histogram part never exceeds the counter as it is now.
C17_HistogramLagsCounter ==
    /\ \A l \in DOMAIN REQUEST_COUNT \cup DOMAIN REQUEST_LATENCY :
           ValueAt(REQUEST_COUNT, l) - ValueAt(REQUEST_LATENCY, l)
               = Cardinality({r \in Slots : /\ requests[r].pc = "counted"
                                            /\ Labels(requests[r]) = l})
    /\ \A r \in Scrapes :
           /\ \A l \in DOMAIN requests[r].body.count :
                  requests[r].body.count[l] <= ValueAt(REQUEST_COUNT, l)
           /\ \A l \in DOMAIN requests[r].body.latency :
                  /\ requests[r].body.latency[l] <= ValueAt(REQUEST_LATENCY, l)
                  /\ requests[r].body.latency[l] <= ValueAt(REQUEST_COUNT, l)

\* A scrape was served while another request sat between its counter
\* increment and its observation, and its payload shows the difference.
C17_Witness ==
    \E r \in Scrapes, q \in Slots :
        /\ requests[q].pc = "counted"
        /\ ValueAt(requests[r].body.count, Labels(requests[q])) = 1
        /\ ValueAt(requests[r].body.latency, Labels(requests[q])) = 0

\* C18: in every state the in-progress gauge is not negative and equals the
\* number of requests that have entered the middleware and not yet left it,
\* whether by returning a response or by failing.
C18_GaugeCountsRequestsInFlight ==
    /\ IN_PROGRESS >= 0
    /\ IN_PROGRESS = Cardinality({r \in Slots : requests[r].pc \in InMiddleware})

\* The label triple of a served scrape.
ScrapeTriple == <<"GET", "/metrics", 200>>

\* The step in which the exporter endpoint of request r reads the counter.
CountReadStep(r) == requests[r].pc = "handler" /\ requests'[r].pc = "count_read"

\* C19 as stated: the payload of a scrape shows a gauge of at least 1, and its
\* counter of (GET, /metrics, 200) equals the number of scrapes that completed
\* (returned their response) before the counter was read.
C19_ScrapeCountsCompletedScrapes ==
    [][\A r \in Slots :
          /\ (HandlerStep(r) /\ IsRequest(r, "GET", "/metrics")) =>
                 requests'[r].body.gauge >= 1
          /\ CountReadStep(r) =>
                 ValueAt(requests'[r].body.count, ScrapeTriple)
                     = Cardinality({q \in Slots : /\ IsRequest(q, "GET", "/metrics")
                                                  /\ Completed(q)})]_vars

\* C19 as amended: the payload of a scrape shows a gauge of at least 1, and
\* its counter of (GET, /metrics, 200) equals the number of other scrapes that
\* had passed their counter increment when the counter was read: never the
\* scrape being served, every scrape completed before that read, and also a
\* concurrent scrape that has been counted but has not returned yet.  The
\* payload returned carries the value read.
C19_ScrapeNeverCountsItself ==
    [][\A r \in Slots :
          /\ CountReadStep(r) =>
                 /\ ValueAt(requests'[r].body.count, ScrapeTriple)
                        = Cardinality({q \in Slots \ {r} :
                               /\ IsRequest(q, "GET", "/metrics")
                               /\ requests[q].pc \in {"counted", "observed", "done"}})
                 /\ ValueAt(requests'[r].body.count, ScrapeTriple)
                        >= Cardinality({q \in Slots : /\ IsRequest(q, "GET", "/metrics")
                                                      /\ Completed(q)})
          /\ (HandlerStep(r) /\ IsRequest(r, "GET", "/metrics")) =>
                 /\ requests'[r].body.gauge >= 1
                 /\ ValueAt(requests'[r].body.count, ScrapeTriple)
                        = ValueAt(requests[r].body.count, ScrapeTriple)]_vars

\* A scrape was rendered while another scrape had been counted but had not
\* returned: the payload counts a scrape that is not completed.
C19_Witness ==
    \E r \in Scrapes, q \in Slots :
        /\ q # r
        /\ IsRequest(q, "GET", "/metrics")
        /\ requests[q].pc \in {"counted", "observed"}
        /\ ValueAt(requests[r].body.count, ScrapeTriple) = 1
        /\ requests[r].body.gauge >= 1

====
